---- MODULE Spec2Model ----
(***************************************************************************)
(* Guitar detail page of dealio (src/src/app/guitars/guitar-id/page.tsx):  *)
(* the React state of GuitarDetailPageContent and the asynchronous         *)
(* loadDealsData pipeline (fetch, validate, score, sort, progressive       *)
(* reveal), with every invocation of loadDealsData as its own process.     *)
(***************************************************************************)
EXTENDS Integers, Sequences, FiniteSets, TLC

(***************************************************************************)
(* Bounds of the model.                                                    *)
(***************************************************************************)
\* number of loadDealsData invocations that may be in flight together
MaxScans == 2
\* number of handleAddGuitar invocations that may be in flight together
MaxAdds == 2
\* number of handleAddGuitar invocations that reach their fetch
MaxGuitars == 2
\* longest text typed into a Combobox
MaxText == 2
\* number of blur timeouts of a Combobox that may be pending together
MaxTimers == 1
\* longest batch built from arbitrary raw records
MaxListings == 2
\* length of the generated long batch (more listings than the middle prefix)
LongBatchLen == 7
\* Math.random() is drawn from {0/RandDen, ..., (RandDen-1)/RandDen}
RandDen == 2

(***************************************************************************)
(* Constants of the program.                                               *)
(***************************************************************************)
HeadSize == 3
MidSize == 6
MidStep == 2
ScoreFloor == 50
ScoreCeil == 95
ScoreBase == 75
NewBonus == 5
ExcellentBonus == 3
VerifiedBonus == 2
ScoreMax == 100
RandomSpan == 40
RandomLow == 60

sources == <<"Reverb", "eBay", "Facebook", "Craigslist", "Guitar Center", "Sweetwater">>

(***************************************************************************)
(* JavaScript values.  A loosely typed value is a record with a type tag;  *)
(* n carries a number, s a string.                                         *)
(***************************************************************************)
Num(k) == [t |-> "num", n |-> k, s |-> ""]
Str(x) == [t |-> "str", n |-> 0, s |-> x]
Undef == [t |-> "undef", n |-> 0, s |-> ""]
NaN == [t |-> "nan", n |-> 0, s |-> ""]

\* ToBoolean: undefined, NaN, 0 and "" are falsy
Truthy(v) == \/ v.t = "num" /\ v.n # 0
             \/ v.t = "str" /\ v.s # ""

\* a || b on JavaScript values
OrElse(a, b) == IF Truthy(a) THEN a ELSE b

\* a || b on strings ("" stands for any falsy string field: undefined, null, "")
OrStr(a, b) == IF a # "" THEN a ELSE b

\* template-literal conversion of a value to text
ToText(v) == IF v.t = "num" THEN ToString(v.n)
             ELSE IF v.t = "str" THEN v.s
             ELSE IF v.t = "nan" THEN "NaN" ELSE "undefined"

Max(a, b) == IF a >= b THEN a ELSE b
Min(a, b) == IF a <= b THEN a ELSE b

\* floor(a / b) for b # 0
FloorDiv(a, b) == IF b > 0 THEN a \div b ELSE (0 - a) \div (0 - b)

(***************************************************************************)
(* Raw listings of the API response and the listings the page displays.    *)
(* Text fields are strings, "" standing for an absent or empty field;      *)
(* price and deal_score are JavaScript values.                             *)
(***************************************************************************)
RawListing(id, price, source, listingUrl, condition, real, score) ==
    [id |-> id, listing_id |-> "", price |-> price, source |-> source,
     marketplace |-> "", listingUrl |-> listingUrl, url |-> "",
     condition |-> condition, has_real_data |-> real,
     seller_verified |-> real, deal_score |-> score,
     location |-> "", seller_location |-> "", created_at |-> "",
     listed_date |-> "", seller_rating |-> Undef]

\* the validation of a deals.all record: the record maps to null
IsInvalidListing(listing) ==
    \/ ~Truthy(listing.price)
    \/ listing.source = ""
    \/ listing.listingUrl = ""

\* Arithmetic on a number given as the fraction num/den, den # 0, or NaN.
Frac(num, den) == [nan |-> FALSE, num |-> num, den |-> den]
FracNaN == [nan |-> TRUE, num |-> 0, den |-> 1]

\* ToNumber of a value taking part in arithmetic
ToFrac(v) == IF v.t = "num" THEN Frac(v.n, 1) ELSE FracNaN

\* const marketPrice = data.marketData?.averagePrice
\*                     || guitarData?.avgMarketPrice || listing.price * 1.2
MarketPrice(listing, averagePrice, avgMarketPrice) ==
    IF Truthy(averagePrice) THEN ToFrac(averagePrice)
    ELSE IF Truthy(avgMarketPrice) THEN ToFrac(avgMarketPrice)
    ELSE IF listing.price.t = "num" THEN Frac(listing.price.n * 12, 10)
    ELSE FracNaN

\* PriceDiff with the operands of the subtraction exchanged
PriceDiffReversed(listing, marketPrice) ==
    IF marketPrice.nan \/ listing.price.t # "num" \/ marketPrice.num = 0
    THEN FracNaN
    ELSE Frac((listing.price.n * marketPrice.den - marketPrice.num) * 100,
              marketPrice.num)

\* const priceDiff = ((marketPrice - listing.price) / marketPrice) * 100
PriceDiff(listing, marketPrice) ==
    IF marketPrice.nan \/ listing.price.t # "num" \/ marketPrice.num = 0
    THEN FracNaN
    ELSE Frac((marketPrice.num - listing.price.n * marketPrice.den) * 100,
              marketPrice.num)

\* den > 0 form of a fraction
Positive(f) == IF f.den > 0 THEN f ELSE Frac(0 - f.num, 0 - f.den)

\* const baseScore = Math.max(50, Math.min(95, 75 + priceDiff))
BaseScore(priceDiff) ==
    IF priceDiff.nan THEN FracNaN
    ELSE LET d == Positive(priceDiff)
         IN Frac(Max(ScoreFloor * d.den,
                     Min(ScoreCeil * d.den, ScoreBase * d.den + d.num)),
                 d.den)

\* Bonus with the bonuses of New and Excellent exchanged
BonusExchanged(listing) ==
    (IF listing.condition = "New" THEN ExcellentBonus ELSE 0)
    + (IF listing.condition = "Excellent" THEN NewBonus ELSE 0)
    + (IF listing.has_real_data THEN VerifiedBonus ELSE 0)

\* the bonus added to dealScore for condition and has_real_data
Bonus(listing) ==
    (IF listing.condition = "New" THEN NewBonus ELSE 0)
    + (IF listing.condition = "Excellent" THEN ExcellentBonus ELSE 0)
    + (IF listing.has_real_data THEN VerifiedBonus ELSE 0)

\* dealScore: Math.min(100, Math.floor(dealScore))
DealScore(listing, averagePrice, avgMarketPrice) ==
    LET baseScore == BaseScore(PriceDiff(listing,
                         MarketPrice(listing, averagePrice, avgMarketPrice)))
    IN IF baseScore.nan THEN NaN
       ELSE Num(Min(ScoreMax,
                    FloorDiv(baseScore.num + Bonus(listing) * baseScore.den,
                             baseScore.den)))

\* id: listing.id || `${listing.source}-${listing.price}`
DealId(listing) ==
    OrStr(listing.id, listing.source \o "-" \o ToText(listing.price))

\* new Date(text).toLocaleDateString()
ToLocaleDateString(text) == "date " \o text

\* datePosted: the date formatted when the record has one, else 'Recently'
DatePosted(text) == IF text # "" THEN ToLocaleDateString(text) ELSE "Recently"

\* ToDealListing without the || defaults of the optional fields
ToDealListingUncoerced(listing, averagePrice, avgMarketPrice) ==
    [id |-> DealId(listing),
     price |-> listing.price,
     marketplace |-> listing.source,
     sellerLocation |-> listing.location,
     datePosted |-> ToLocaleDateString(listing.created_at),
     listingUrl |-> listing.listingUrl,
     condition |-> listing.condition,
     dealScore |-> DealScore(listing, averagePrice, avgMarketPrice),
     sellerVerified |-> listing.has_real_data,
     sellerInfo |-> [rating |-> listing.seller_rating]]

\* the object a valid deals.all record maps to (description, imageUrl and
\* the seller's name and account age are display texts nothing depends on)
ToDealListing(listing, averagePrice, avgMarketPrice) ==
    [id |-> DealId(listing),
     price |-> listing.price,
     marketplace |-> listing.source,
     sellerLocation |-> OrStr(listing.location, "Location not specified"),
     datePosted |-> DatePosted(listing.created_at),
     listingUrl |-> listing.listingUrl,
     condition |-> OrStr(listing.condition, "Used"),
     dealScore |-> DealScore(listing, averagePrice, avgMarketPrice),
     sellerVerified |-> listing.has_real_data,
     sellerInfo |-> [rating |-> OrElse(listing.seller_rating, Num(0))]]

\* data.deals.all.map(...).filter(Boolean)
ProcessDealsAll(all, averagePrice, avgMarketPrice) ==
    LET valid == SelectSeq(all, LAMBDA l : ~IsInvalidListing(l))
    IN [k \in 1..Len(valid) |->
           ToDealListing(valid[k], averagePrice, avgMarketPrice)]

\* Math.floor(Math.random() * 40 + 60) for Math.random() = r / RandDen
RandomScore(r) == FloorDiv(r * RandomSpan, RandDen) + RandomLow

\* id: listing.listing_id || listing.id || `listing-${index}`
FallbackId(listing, index) ==
    OrStr(listing.listing_id, OrStr(listing.id, "listing-" \o ToString(index)))

\* the object a data.listings record maps to (index is 0-based)
ToFallbackListing(listing, index, r) ==
    [id |-> FallbackId(listing, index),
     price |-> listing.price,
     marketplace |-> OrStr(listing.source, OrStr(listing.marketplace, "Unknown")),
     sellerLocation |-> OrStr(listing.seller_location,
                              OrStr(listing.location, "Location not specified")),
     datePosted |-> DatePosted(listing.listed_date),
     listingUrl |-> OrStr(listing.url, listing.listingUrl),
     condition |-> OrStr(listing.condition, "Used"),
     dealScore |-> OrElse(listing.deal_score, Num(RandomScore(r))),
     sellerVerified |-> listing.seller_verified,
     sellerInfo |-> [rating |-> OrElse(listing.seller_rating, Num(0))]]

\* data.listings.map(...): rnd[k] is the random draw made for element k
ProcessListings(listings, rnd) ==
    [k \in 1..Len(listings) |-> ToFallbackListing(listings[k], k - 1, rnd[k])]

(***************************************************************************)
(* allListings.sort((a, b) => b.dealScore - a.dealScore)                   *)
(***************************************************************************)
\* the comparator: negative, zero or positive, or NaN
CompareScore(a, b) ==
    IF a.dealScore.t = "num" /\ b.dealScore.t = "num"
    THEN Num(b.dealScore.n - a.dealScore.n)
    ELSE NaN

\* a goes before b only when the comparator is negative
Before(a, b) == LET c == CompareScore(a, b) IN c.t = "num" /\ c.n < 0

\* the place element k takes in a stable sort: behind the elements that go
\* before it and behind the earlier elements it does not go before
SortedPlace(seq, k) ==
    1 + Cardinality({j \in 1..Len(seq) :
                        \/ Before(seq[j], seq[k])
                        \/ j < k /\ ~Before(seq[k], seq[j])})

\* the stable sort of a sequence whose comparator is consistent
SortByScore(seq) ==
    [p \in 1..Len(seq) |->
        seq[CHOOSE k \in 1..Len(seq) : SortedPlace(seq, k) = p]]

\* The arrays sort() may leave.  With a NaN score the comparator is not
\* consistent and the order is implementation-defined: any permutation.
SortOutcomes(seq) ==
    IF \A k \in 1..Len(seq) : seq[k].dealScore.t = "num"
    THEN {SortByScore(seq)}
    ELSE {[k \in 1..Len(seq) |-> seq[p[k]]] : p \in Permutations(1..Len(seq))}

(***************************************************************************)
(* The API response: the fetch fails, the status is not ok, the body does  *)
(* not parse, or the body is the object data.                              *)
(***************************************************************************)
NoData == [hasMarketData |-> FALSE, averagePrice |-> Undef,
           market_price |-> Undef, shape |-> "none", items |-> <<>>]

Response(kind, data) == [kind |-> kind, data |-> data]

OkResponse(averagePrice, shape, items) ==
    Response("ok", [hasMarketData |-> averagePrice # Undef,
                    averagePrice |-> averagePrice, market_price |-> Undef,
                    shape |-> shape, items |-> items])

FailedResponses ==
    {Response(k, NoData) : k \in {"network_error", "http_error", "bad_body"}}

\* let allListings = ... as the response shape decides
Process(data, avgMarketPrice, rnd) ==
    IF data.shape = "deals"
    THEN ProcessDealsAll(data.items, data.averagePrice, avgMarketPrice)
    ELSE IF data.shape = "listings" THEN ProcessListings(data.items, rnd)
    ELSE <<>>

(***************************************************************************)
(* State of GuitarDetailPageContent and of the loadDealsData invocations.  *)
(***************************************************************************)
VARIABLES
    guitarData,      \* useState<GuitarData | null>: present = not null
    dealListings,    \* useState<DealListing[]>
    scrapingStatus,  \* useState<ScrapingStatus>
    loading,         \* useState(true)
    dealsLoading,    \* useState(true)
    error,           \* useState<string | null>: "" = null
    scans,           \* the invocations of loadDealsData: position and locals
    mounted,         \* the component is on screen
    latest           \* the invocation started last, and what it ranked

vars == <<guitarData, dealListings, scrapingStatus, loading, dealsLoading,
          error, scans, mounted, latest>>

(***************************************************************************)
(* State of the Dashboard (src/src/app/page.tsx).                          *)
(***************************************************************************)
VARIABLES
    trackedGuitars,  \* useState<TrackedGuitar[]>: the list of the last render
    isAddModalOpen,  \* useState(false)
    guitarToRemove,  \* useState<TrackedGuitar | null>
    formData,        \* useState({type, brand, model})
    storage,         \* localStorage entry 'dealio-tracked-guitars'
    adds,            \* the invocations of handleAddGuitar
    effects,         \* the effects of the last commit not yet run, in order
    scheduled,       \* a state update made by an effect, not yet rendered
    nextId           \* the number of ids handed out so far

dashVars == <<trackedGuitars, isAddModalOpen, guitarToRemove, formData,
              storage, adds, effects, scheduled, nextId>>

(***************************************************************************)
(* State of a Combobox (src/src/components/ui/combobox.tsx).               *)
(***************************************************************************)
VARIABLES
    inputValue,       \* useState(""): the text of the input
    isOpen,           \* useState(false)
    filteredOptions,  \* useState(options)
    selectedIndex,    \* useState(-1): counted from 0
    value,            \* the prop value, held by the parent
    focused,          \* the input has the focus
    blurTimers,       \* setTimeout callbacks of handleInputBlur not yet run
    comboEffects,     \* the effects of the last commit not yet run, in order
    comboScheduled    \* state updates made by effects, not yet rendered

comboVars == <<inputValue, isOpen, filteredOptions, selectedIndex, value,
               focused, blurTimers, comboEffects, comboScheduled>>

\* the state of the components other than the guitar detail page
otherVars == <<dashVars, comboVars>>

\* the state of the components other than the Dashboard
nonDashVars == <<vars, comboVars>>

\* the state of the components other than the Combobox
nonComboVars == <<vars, dashVars>>

allVars == <<vars, otherVars>>

\* interface TrackedGuitar; createdAt, dealsCount, bestDealPrice, imageUrl
\* and specs are carried along and never read by the handlers
TrackedGuitar(id, type, brand, model, marketPrice) ==
    [id |-> id, type |-> type, brand |-> brand, model |-> model,
     marketPrice |-> marketPrice]

\* guitarToRemove = null
NullGuitar == TrackedGuitar(0, "", "", "", Undef)

EmptyForm == [type |-> "", brand |-> "", model |-> ""]

\* localStorage.getItem(...) === null
NoEntry == [kind |-> "absent", value |-> <<>>]

\* an entry whose text JSON.parse rejects
CorruptEntry == [kind |-> "corrupt", value |-> <<>>]

\* JSON.stringify(trackedGuitars): the text of the list
Stringify(list) == [kind |-> "json", value |-> list]

\* JSON.parse(savedGuitars): the list, or the SyntaxError it throws
Parse(entry) ==
    IF entry.kind = "json" THEN [threw |-> FALSE, value |-> entry.value]
    ELSE [threw |-> TRUE, value |-> <<>>]

AddIds == 1..MaxAdds

IdleAdd == [pc |-> "idle", id |-> 0, trackedGuitars |-> <<>>,
            formData |-> EmptyForm]

\* the guitars an earlier visit left in localStorage
StoredGuitar(n) ==
    TrackedGuitar(n, "Electric", "Fender",
                  IF n = 1 THEN "Stratocaster" ELSE "Telecaster", Num(1000))

StoredGuitars == <<StoredGuitar(1), StoredGuitar(2)>>

StoredEntries ==
    {NoEntry, CorruptEntry, Stringify(<<StoredGuitar(1)>>),
     Stringify(StoredGuitars)}

\* Math.random().toString(36).substr(2, 9) of the n-th invocation: the ids
\* drawn are distinct from each other and from the stored ones
RandomId(n) == Len(StoredGuitars) + n

\* interface Option; a text is the sequence of its characters
Option(val, label) == [value |-> val, label |-> label]

\* the prop options
options ==
    <<Option(<<"a", "b">>, <<"A", "b">>), Option(<<"b">>, <<"b">>),
      Option(<<"b", "a">>, <<"b", "a">>)>>

NothingScheduled ==
    [inputSet |-> FALSE, inputValue |-> <<>>,
     filterSet |-> FALSE, filteredOptions |-> <<>>]

\* the Combobox after its first render with the prop value val, before its
\* effects have run
ComboboxInit(val) ==
    /\ inputValue = <<>>
    /\ isOpen = FALSE
    /\ filteredOptions = options
    /\ selectedIndex = -1
    /\ value = val
    /\ focused = FALSE
    /\ blurTimers = 0
    /\ comboEffects = <<"value", "filter">>
    /\ comboScheduled = NothingScheduled

\* the Dashboard after its first render, before its effects have run
DashboardInit(entry) ==
    /\ trackedGuitars = <<>>
    /\ isAddModalOpen = FALSE
    /\ guitarToRemove = NullGuitar
    /\ formData = EmptyForm
    /\ storage = entry
    /\ adds = [k \in AddIds |-> IdleAdd]
    /\ effects = <<"load", "save">>
    /\ scheduled = [set |-> FALSE, value |-> <<>>]
    /\ nextId = 0

ScanIds == 1..MaxScans

\* an invocation slot not in use; pc "done" and "failed" are the two ways
\* an invocation has returned (end of the try block, or the catch block)
IdleScan == [pc |-> "idle", avgMarketPrice |-> Undef, data |-> NoData,
             allListings |-> <<>>, i |-> 0]

Returned(s) == scans[s].pc \in {"idle", "done", "failed"}
InFlight(s) == scans[s].pc \in {"fetching", "sleeping"}

\* a new invocation takes the first slot not in use
FreeSlot(s) == Returned(s) /\ \A t \in ScanIds : t < s => InFlight(t)

NoGuitar == [present |-> FALSE, avgMarketPrice |-> Undef]

\* guitarData?.avgMarketPrice as the closure of a render sees it
AvgMarketPrice(g) == IF g.present THEN g.avgMarketPrice ELSE Undef

PageInit ==
    /\ guitarData = NoGuitar
    /\ dealListings = <<>>
    /\ scrapingStatus = [isActive |-> FALSE, progress |-> Frac(0, 1),
                         currentSource |-> "", completedSources |-> <<>>,
                         totalSources |-> 6, lastUpdate |-> "", nextScan |-> ""]
    /\ loading = TRUE
    /\ dealsLoading = TRUE
    /\ error = ""
    /\ scans = [s \in ScanIds |-> IdleScan]
    /\ mounted = TRUE
    /\ latest = [slot |-> 0, listings |-> <<>>]

Init ==
    /\ PageInit
    /\ DashboardInit(NoEntry)
    /\ ComboboxInit(<<>>)

\* loadDealsData up to its await fetch(...); avgMarketPrice is the value of
\* guitarData?.avgMarketPrice in the render whose closure makes the call
StartScan(s, avgMarketPrice) ==
    /\ dealsLoading' = TRUE
    /\ scrapingStatus' = [scrapingStatus EXCEPT !.isActive = TRUE,
                              !.progress = Frac(0, 1),
                              !.currentSource = "Initializing..."]
    /\ scans' = [scans EXCEPT ![s] = [IdleScan EXCEPT !.pc = "fetching",
                                          !.avgMarketPrice = avgMarketPrice]]
    /\ latest' = [slot |-> s, listings |-> <<>>]

\* What the load effect finds: brand and model in searchParams ("params"),
\* else the first guitar of localStorage with or without a market price
\* ("stored", "stored_no_market"), or nothing ("none").
EffectInputs ==
    {[kind |-> "params", marketPrice |-> 0],
     [kind |-> "stored", marketPrice |-> 1000],
     [kind |-> "stored_no_market", marketPrice |-> 0],
     [kind |-> "none", marketPrice |-> 0]}

\* the inputs of the page specification: those that start a scan (the two
\* error cases start none and are inputs of the sequential specification)
PageEffectInputs == {e \in EffectInputs : e.kind \in {"params", "stored"}}

\* useEffect(loadGuitarData, [searchParams]): on mount and whenever
\* searchParams changes
LoadEffect(s, e) ==
    /\ mounted
    /\ FreeSlot(s)
    /\ loading' = FALSE
    /\ UNCHANGED <<mounted, otherVars>>
    /\ IF e.kind = "params"
       THEN /\ guitarData' = [present |-> TRUE, avgMarketPrice |-> Num(0)]
            /\ StartScan(s, AvgMarketPrice(guitarData))
            /\ UNCHANGED <<error, dealListings>>
       ELSE IF e.kind = "stored"
       THEN /\ guitarData' = [present |-> TRUE,
                              avgMarketPrice |-> Num(e.marketPrice)]
            /\ StartScan(s, AvgMarketPrice(guitarData))
            /\ UNCHANGED <<error, dealListings>>
       ELSE /\ error' = IF e.kind = "stored_no_market"
                        THEN "No market data available for this guitar."
                        ELSE "Guitar information not found."
            /\ UNCHANGED <<guitarData, dealListings, scrapingStatus,
                           dealsLoading, scans, latest>>

\* handleManualRefresh, reached from the Refresh and the Try Again button,
\* which the page renders once it is past its loading and error screens
handleManualRefresh(s) ==
    /\ mounted
    /\ FreeSlot(s)
    /\ ~loading /\ error = ""
    /\ guitarData.present /\ ~scrapingStatus.isActive
    /\ StartScan(s, AvgMarketPrice(guitarData))
    /\ UNCHANGED <<guitarData, dealListings, loading, error, mounted,
                   otherVars>>

\* The consumer leaves the page and the component unmounts.  Neither effect
\* of the component returns a cleanup that reaches loadDealsData, and the
\* loop holds no flag or signal to test: the invocations in flight go on,
\* and go on calling the setters.
Unmount ==
    /\ mounted
    /\ mounted' = FALSE
    /\ UNCHANGED <<guitarData, dealListings, scrapingStatus, loading,
                   dealsLoading, error, scans, latest, otherVars>>

\* setGuitarData(prev => prev ? {...prev, avgMarketPrice: ...} : null)
UpdateGuitarData(prev, data) ==
    IF data.hasMarketData /\ prev.present
    THEN [prev EXCEPT !.avgMarketPrice =
              OrElse(data.averagePrice,
                     OrElse(data.market_price, prev.avgMarketPrice))]
    ELSE prev

\* Progress computed from i instead of i + 1
ProgressFromZero(i) == Frac(i * 100, Len(sources))

\* progress = ((i + 1) / sources.length) * 100
Progress(i) == Frac((i + 1) * 100, Len(sources))

\* Slice ending one element early
SliceOneShort(allListings, n) ==
    SubSeq(allListings, 1, Min(n, Len(allListings)) - 1)

\* allListings.slice(0, Math.min(n, allListings.length))
Slice(allListings, n) == SubSeq(allListings, 1, Min(n, Len(allListings)))

\* the status update of iteration i of the reveal loop
StepStatus(prev, i) ==
    [prev EXCEPT !.currentSource = sources[i + 1],
                 !.progress = Progress(i),
                 !.completedSources = SubSeq(sources, 1, i + 1)]

\* Reveal with the last branch testing i === sources.length
RevealLastMissed(prev, allListings, i) ==
    IF i = 0 THEN Slice(allListings, HeadSize)
    ELSE IF i = MidStep THEN Slice(allListings, MidSize)
    ELSE IF i = Len(sources) THEN allListings
    ELSE prev

\* the progressive reveal of iteration i: the value of dealListings after it
Reveal(prev, allListings, i) ==
    IF i = 0 THEN Slice(allListings, HeadSize)
    ELSE IF i = MidStep THEN Slice(allListings, MidSize)
    ELSE IF i = Len(sources) - 1 THEN allListings
    ELSE prev

\* the status update at the end of the try block
FinalStatus(prev) ==
    [prev EXCEPT !.isActive = FALSE,
                 !.lastUpdate = "completion time",
                 !.nextScan = "completion time + 6 hours"]

\* loadDealsData from the arrival of the response to its next await: the
\* body is processed and sorted and iteration 0 of the reveal loop runs, or
\* the invocation returns (no listings; or the catch block after a failure).
\* rnd are the draws of Math.random(), sorted the array sort() leaves (one
\* of Outcomes(s, r, rnd)).
Respond(s, r, rnd, sorted) ==
    /\ scans[s].pc = "fetching"
    /\ IF r.kind = "ok"
       THEN /\ guitarData' = UpdateGuitarData(guitarData, r.data)
            /\ IF Len(sorted) > 0
               THEN /\ scans' = [scans EXCEPT ![s].pc = "sleeping",
                                     ![s].data = r.data,
                                     ![s].allListings = sorted,
                                     ![s].i = 0]
                    /\ scrapingStatus' = StepStatus(scrapingStatus, 0)
                    /\ dealListings' = Reveal(dealListings, sorted, 0)
                    /\ UNCHANGED dealsLoading
               ELSE /\ scans' = [scans EXCEPT ![s] =
                                     [IdleScan EXCEPT !.pc = "done"]]
                    /\ dealListings' = <<>>
                    /\ scrapingStatus' = FinalStatus(scrapingStatus)
                    /\ dealsLoading' = FALSE
       ELSE /\ sorted = <<>>
            /\ scans' = [scans EXCEPT ![s] = [IdleScan EXCEPT !.pc = "failed"]]
            /\ scrapingStatus' = [scrapingStatus EXCEPT !.isActive = FALSE]
            /\ dealListings' = <<>>
            /\ dealsLoading' = FALSE
            /\ UNCHANGED guitarData
    /\ latest' = IF latest.slot = s THEN [latest EXCEPT !.listings = sorted]
                 ELSE latest
    /\ UNCHANGED <<loading, error, mounted, otherVars>>

\* the 250 ms timer of iteration i fires and iteration i + 1 runs
RevealStep(s) ==
    /\ scans[s].pc = "sleeping"
    /\ scans[s].i < Len(sources) - 1
    /\ scans' = [scans EXCEPT ![s].i = scans[s].i + 1]
    /\ scrapingStatus' = StepStatus(scrapingStatus, scans[s].i + 1)
    /\ dealListings' = Reveal(dealListings, scans[s].allListings, scans[s].i + 1)
    /\ UNCHANGED <<guitarData, loading, dealsLoading, error, mounted, latest,
                   otherVars>>

\* Complete without the finally block
CompleteNoFinally(s) ==
    /\ scans[s].pc = "sleeping"
    /\ scans[s].i = Len(sources) - 1
    /\ scans' = [scans EXCEPT ![s] = [IdleScan EXCEPT !.pc = "done"]]
    /\ scrapingStatus' = FinalStatus(scrapingStatus)
    /\ UNCHANGED <<guitarData, dealListings, loading, dealsLoading, error,
                   mounted, latest, otherVars>>

\* the timer of the last iteration fires: the loop ends, the final status
\* update and the finally block run
Complete(s) ==
    /\ scans[s].pc = "sleeping"
    /\ scans[s].i = Len(sources) - 1
    /\ scans' = [scans EXCEPT ![s] = [IdleScan EXCEPT !.pc = "done"]]
    /\ scrapingStatus' = FinalStatus(scrapingStatus)
    /\ dealsLoading' = FALSE
    /\ UNCHANGED <<guitarData, dealListings, loading, error, mounted, latest,
                   otherVars>>

(***************************************************************************)
(* Inputs: the responses the API may give.                                 *)
(***************************************************************************)
\* record k of a generated batch: well-formed, the price falling and the
\* score of the API rising with k
GenListing(k) ==
    RawListing("L" \o ToString(k), Num(1000 - 40 * k),
               IF k % 2 = 0 THEN "eBay" ELSE "Reverb",
               "https://listing/" \o ToString(k), "", FALSE, Num(60 + 5 * k))

GenBatch(n) == [k \in 1..n |-> GenListing(k)]

\* well-formed records that differ in what the score depends on
ScoringListings ==
    {RawListing("", Num(p), "Reverb", "u", c, v, Undef) :
        p \in {700, 900, 1000, 1150, 1300}, c \in {"", "New", "Excellent"},
        v \in BOOLEAN}

\* records with a field absent or unusable
OddListings ==
    {RawListing("", Undef, "Reverb", "u", "", FALSE, Undef),
     RawListing("", Str("abc"), "Reverb", "u", "", FALSE, Num(85)),
     RawListing("", Num(0), "Reverb", "u", "", FALSE, Undef),
     RawListing("", Num(-100), "Reverb", "u", "", FALSE, Num(85)),
     RawListing("", Num(800), "", "u", "", FALSE, Undef),
     RawListing("", Num(800), "Reverb", "", "", FALSE, Undef)}

\* records that batches of several are made of: with a price that is no
\* number, with a negative price, a well-formed one with an id and a score
\* of its own, and one with price and source but no URL
MixedListings ==
    {RawListing("", Str("abc"), "Reverb", "u", "", FALSE, Num(85)),
     RawListing("", Num(-100), "Reverb", "u", "", FALSE, Num(70)),
     RawListing("a", Num(1000), "Reverb", "u", "", FALSE, Num(150)),
     RawListing("n", Num(800), "eBay", "", "", FALSE, Num(90))}

\* records that carry the optional fields
OptionalListings ==
    {[RawListing("o", Num(900), "Reverb", "u", c, TRUE, Undef)
         EXCEPT !.location = "Austin, TX", !.seller_location = "Austin",
                !.created_at = "2024-05-01", !.listed_date = "2024-05-02",
                !.seller_rating = Num(4)] : c \in {"", "Good"}}

\* batches: no record, one record of any kind, up to MaxListings mixed
\* records, and a long batch
Batches ==
    {<<x>> : x \in ScoringListings \cup OddListings \cup OptionalListings}
    \cup UNION {[1..n -> MixedListings] : n \in 0..MaxListings}
    \cup {GenBatch(LongBatchLen)}

AveragePrices == {Undef, Num(1000)}

\* a response whose marketData.averagePrice is a negative number
NegativeAverageResponse ==
    OkResponse(Num(-500), "deals",
               <<RawListing("", Num(900), "Reverb", "u", "", FALSE, Undef)>>)

\* the responses of the sequential specification
BatchResponses ==
    FailedResponses
    \cup {OkResponse(a, sh, q) :
              a \in AveragePrices, sh \in {"deals", "listings"}, q \in Batches}
    \cup {OkResponse(Undef, "none", <<>>), NegativeAverageResponse}

\* the responses of the page specification: a failure (the three kinds of
\* failure all end in the catch block), no listings, and a long batch
PageResponses ==
    {Response("http_error", NoData)}
    \cup {OkResponse(a, "deals", GenBatch(n)) :
              a \in {Num(1000)}, n \in {0, LongBatchLen}}

\* the draws of Math.random() a response consumes (none is made for a
\* record that has a deal_score: 0 stands for no draw)
Draws(r) ==
    IF r.kind = "ok" /\ r.data.shape = "listings"
    THEN {rnd \in [1..Len(r.data.items) -> 0..(RandDen - 1)] :
             \A k \in 1..Len(r.data.items) :
                Truthy(r.data.items[k].deal_score) => rnd[k] = 0}
    ELSE {<<>>}

\* the sorted arrays a response may leave in invocation s
Outcomes(s, r, rnd) ==
    IF r.kind = "ok"
    THEN SortOutcomes(Process(r.data, scans[s].avgMarketPrice, rnd))
    ELSE {<<>>}

(***************************************************************************)
(* Specifications.                                                         *)
(***************************************************************************)
\* the fetch of invocation s settles with one of the given responses
Arrive(s, responses) ==
    /\ scans[s].pc = "fetching"
    /\ \E r \in responses :
          \E rnd \in Draws(r) : \E sorted \in Outcomes(s, r, rnd) :
             Respond(s, r, rnd, sorted)

\* The page: invocations of loadDealsData may overlap.
Next ==
    \/ \E s \in ScanIds, e \in PageEffectInputs : LoadEffect(s, e)
    \/ \E s \in ScanIds : handleManualRefresh(s)
    \/ \E s \in ScanIds : Arrive(s, PageResponses)
    \/ \E s \in ScanIds : RevealStep(s)
    \/ \E s \in ScanIds : Complete(s)
    \/ Unmount

Spec == Init /\ [][Next]_allVars

\* The page with a scan started only when none is in flight, and every
\* response shape and record kind.
NextSeq ==
    \/ \E e \in EffectInputs : LoadEffect(1, e)
    \/ handleManualRefresh(1)
    \/ Arrive(1, BatchResponses)
    \/ RevealStep(1)
    \/ Complete(1)

SeqSpec == Init /\ [][NextSeq]_allVars

\* the next step of invocation s: its fetch settles, with a failure or with
\* any other response, or its timer fires
Resume(s) ==
    \/ Arrive(s, FailedResponses)
    \/ Arrive(s, PageResponses)
    \/ RevealStep(s)
    \/ Complete(s)

\* The page with every fetch settling and every timer firing.
FairSpec == Spec /\ \A s \in ScanIds : WF_vars(Resume(s))

(***************************************************************************)
(* The Dashboard (src/src/app/page.tsx).                                   *)
(***************************************************************************)
guitarTypes == {"Electric"}
brands == {"Fender"}
models == {"Stratocaster", "Telecaster"}

\* no effect is waiting to run and no state update is waiting to be rendered:
\* event handlers and fetch continuations run between commits
Settled == effects = <<>> /\ ~scheduled.set

FormComplete(form) == form.type # "" /\ form.brand # "" /\ form.model # ""

\* the responses of GET /guitars/{brand}/{model}
MarketResponse(ok, hasGuitarData, hasMarketData, averagePrice) ==
    [ok |-> ok, guitarData |-> hasGuitarData, marketData |-> hasMarketData,
     averagePrice |-> averagePrice]

MarketResponses ==
    {MarketResponse(TRUE, TRUE, TRUE, Num(1000)),
     MarketResponse(TRUE, TRUE, TRUE, Undef),
     MarketResponse(FALSE, FALSE, FALSE, Undef),
     MarketResponse(TRUE, FALSE, TRUE, Num(1000)),
     MarketResponse(TRUE, TRUE, FALSE, Undef)}

\* fetchGuitarMarketData: the market data, or the Error it throws
fetchGuitarMarketData(r) ==
    IF ~r.ok THEN [threw |-> TRUE, marketPrice |-> Undef]
    ELSE IF ~r.guitarData \/ ~r.marketData
         THEN [threw |-> TRUE, marketPrice |-> Undef]
         ELSE [threw |-> FALSE, marketPrice |-> OrElse(r.averagePrice, Num(0))]

\* the first effect of the Dashboard: the list is read from localStorage and
\* setTrackedGuitars(parsedGuitars) is called; the new list shows in the
\* next render
DashboardLoadEffect ==
    /\ effects # <<>>
    /\ Head(effects) = "load"
    /\ effects' = Tail(effects)
    /\ scheduled' = IF storage.kind # "absent" /\ ~Parse(storage).threw
                    THEN [set |-> TRUE, value |-> Parse(storage).value]
                    ELSE scheduled
    /\ UNCHANGED <<trackedGuitars, isAddModalOpen, guitarToRemove, formData,
                   storage, adds, nextId, nonDashVars>>

\* the second effect: it runs after every render that changed trackedGuitars,
\* with the trackedGuitars of that render
DashboardSaveEffect ==
    /\ effects # <<>>
    /\ Head(effects) = "save"
    /\ effects' = Tail(effects)
    /\ storage' = IF Len(trackedGuitars) > 0 THEN Stringify(trackedGuitars)
                  ELSE NoEntry
    /\ UNCHANGED <<trackedGuitars, isAddModalOpen, guitarToRemove, formData,
                   adds, scheduled, nextId, nonDashVars>>

\* the render that follows the state update of an effect
Rerender ==
    /\ effects = <<>>
    /\ scheduled.set
    /\ trackedGuitars' = scheduled.value
    /\ scheduled' = [set |-> FALSE, value |-> <<>>]
    /\ effects' = <<"save">>
    /\ UNCHANGED <<isAddModalOpen, guitarToRemove, formData, storage, adds,
                   nextId, nonDashVars>>

\* <Dialog open={isAddModalOpen} onOpenChange={setIsAddModalOpen}>: the
\* trigger opens the modal
OpenAddModal ==
    /\ Settled
    /\ ~isAddModalOpen
    /\ guitarToRemove = NullGuitar
    /\ isAddModalOpen' = TRUE
    /\ UNCHANGED <<trackedGuitars, guitarToRemove, formData, storage, adds,
                   effects, scheduled, nextId, nonDashVars>>

\* Cancel, Escape or a click outside closes it; the form keeps its fields
CloseAddModal ==
    /\ Settled
    /\ isAddModalOpen
    /\ isAddModalOpen' = FALSE
    /\ UNCHANGED <<trackedGuitars, guitarToRemove, formData, storage, adds,
                   effects, scheduled, nextId, nonDashVars>>

SelectType(type) ==
    /\ Settled
    /\ isAddModalOpen
    /\ formData' = [formData EXCEPT !.type = type]
    /\ UNCHANGED <<trackedGuitars, isAddModalOpen, guitarToRemove, storage,
                   adds, effects, scheduled, nextId, nonDashVars>>

SelectBrand(brand) ==
    /\ Settled
    /\ isAddModalOpen
    /\ formData.type # ""
    /\ formData' = [formData EXCEPT !.brand = brand, !.model = ""]
    /\ UNCHANGED <<trackedGuitars, isAddModalOpen, guitarToRemove, storage,
                   adds, effects, scheduled, nextId, nonDashVars>>

SelectModel(model) ==
    /\ Settled
    /\ isAddModalOpen
    /\ formData.brand # ""
    /\ formData' = [formData EXCEPT !.model = model]
    /\ UNCHANGED <<trackedGuitars, isAddModalOpen, guitarToRemove, storage,
                   adds, effects, scheduled, nextId, nonDashVars>>

AddReturned(k) == adds[k].pc # "fetching"

FreeAdd(k) == AddReturned(k) /\ \A j \in 1..(k - 1) : ~AddReturned(j)

\* handleAddGuitar up to its await: the closure holds the trackedGuitars and
\* the formData of the render in which the button was clicked
handleAddGuitar(k) ==
    /\ Settled
    /\ isAddModalOpen
    /\ FreeAdd(k)
    /\ IF FormComplete(formData)
       THEN /\ nextId < MaxGuitars
            /\ nextId' = nextId + 1
            /\ adds' = [adds EXCEPT ![k] =
                           [pc |-> "fetching", id |-> RandomId(nextId + 1),
                            trackedGuitars |-> trackedGuitars,
                            formData |-> formData]]
       ELSE /\ adds[k].pc # "skipped"
            /\ adds' = [adds EXCEPT ![k] = [IdleAdd EXCEPT !.pc = "skipped"]]
            /\ UNCHANGED nextId
    /\ UNCHANGED <<trackedGuitars, isAddModalOpen, guitarToRemove, formData,
                   storage, effects, scheduled, nonDashVars>>

\* handleAddGuitar whose catch block resets the form and closes the modal
AddSettlesClosingOnFailure(k, r) ==
    /\ Settled
    /\ adds[k].pc = "fetching"
    /\ LET marketData == fetchGuitarMarketData(r)
           newGuitar == TrackedGuitar(adds[k].id, adds[k].formData.type,
                                      adds[k].formData.brand,
                                      adds[k].formData.model,
                                      marketData.marketPrice)
       IN  IF marketData.threw
           THEN /\ adds' = [adds EXCEPT ![k] = [IdleAdd EXCEPT !.pc = "failed"]]
                /\ formData' = EmptyForm
                /\ isAddModalOpen' = FALSE
                /\ UNCHANGED <<trackedGuitars, effects>>
           ELSE /\ adds' = [adds EXCEPT ![k] = [IdleAdd EXCEPT !.pc = "added"]]
                /\ trackedGuitars' = Append(adds[k].trackedGuitars, newGuitar)
                /\ formData' = EmptyForm
                /\ isAddModalOpen' = FALSE
                /\ effects' = <<"save">>
    /\ UNCHANGED <<guitarToRemove, storage, scheduled, nextId, nonDashVars>>

\* handleAddGuitar from the moment its fetch settles with response r; the
\* closure is dropped when the call returns
AddSettles(k, r) ==
    /\ Settled
    /\ adds[k].pc = "fetching"
    /\ LET marketData == fetchGuitarMarketData(r)
           newGuitar == TrackedGuitar(adds[k].id, adds[k].formData.type,
                                      adds[k].formData.brand,
                                      adds[k].formData.model,
                                      marketData.marketPrice)
       IN  IF marketData.threw
           THEN /\ adds' = [adds EXCEPT ![k] = [IdleAdd EXCEPT !.pc = "failed"]]
                /\ UNCHANGED <<trackedGuitars, formData, isAddModalOpen,
                               effects>>
           ELSE /\ adds' = [adds EXCEPT ![k] = [IdleAdd EXCEPT !.pc = "added"]]
                /\ trackedGuitars' = Append(adds[k].trackedGuitars, newGuitar)
                /\ formData' = EmptyForm
                /\ isAddModalOpen' = FALSE
                /\ effects' = <<"save">>
    /\ UNCHANGED <<guitarToRemove, storage, scheduled, nextId, nonDashVars>>

\* the remove button of the card at position i
handleRemoveGuitar(i) ==
    /\ Settled
    /\ ~isAddModalOpen
    /\ guitarToRemove = NullGuitar
    /\ i \in 1..Len(trackedGuitars)
    /\ guitarToRemove' = trackedGuitars[i]
    /\ UNCHANGED <<trackedGuitars, isAddModalOpen, formData, storage, adds,
                   effects, scheduled, nextId, nonDashVars>>

\* confirmRemoveGuitar that drops the first card
confirmRemoveFirst ==
    /\ Settled
    /\ guitarToRemove # NullGuitar
    /\ trackedGuitars' = Tail(trackedGuitars)
    /\ guitarToRemove' = NullGuitar
    /\ effects' = <<"save">>
    /\ UNCHANGED <<isAddModalOpen, formData, storage, adds, scheduled, nextId,
                   nonDashVars>>

confirmRemoveGuitar ==
    /\ Settled
    /\ guitarToRemove # NullGuitar
    /\ trackedGuitars' = SelectSeq(trackedGuitars,
                                   LAMBDA guitar : guitar.id # guitarToRemove.id)
    /\ guitarToRemove' = NullGuitar
    /\ effects' = <<"save">>
    /\ UNCHANGED <<isAddModalOpen, formData, storage, adds, scheduled, nextId,
                   nonDashVars>>

\* <AlertDialog onOpenChange={() => setGuitarToRemove(null)}>: Cancel, Escape
DismissRemoveDialog ==
    /\ Settled
    /\ guitarToRemove # NullGuitar
    /\ guitarToRemove' = NullGuitar
    /\ UNCHANGED <<trackedGuitars, isAddModalOpen, formData, storage, adds,
                   effects, scheduled, nextId, nonDashVars>>

SettleAdd(k) == \E r \in MarketResponses : AddSettles(k, r)

DashInit ==
    /\ PageInit
    /\ \E entry \in StoredEntries : DashboardInit(entry)
    /\ ComboboxInit(<<>>)

DashNext ==
    \/ DashboardLoadEffect
    \/ DashboardSaveEffect
    \/ Rerender
    \/ OpenAddModal
    \/ CloseAddModal
    \/ \E type \in guitarTypes : SelectType(type)
    \/ \E brand \in brands : SelectBrand(brand)
    \/ \E model \in models : SelectModel(model)
    \/ \E k \in AddIds : handleAddGuitar(k)
    \/ \E k \in AddIds : SettleAdd(k)
    \/ \E i \in 1..MaxGuitars + Len(StoredGuitars) : handleRemoveGuitar(i)
    \/ confirmRemoveGuitar
    \/ DismissRemoveDialog

\* The Dashboard from its mount, over every content of localStorage.
DashSpec == DashInit /\ [][DashNext]_allVars

(***************************************************************************)
(* The Combobox (src/src/components/ui/combobox.tsx).                      *)
(***************************************************************************)
Alphabet == {"a", "b", "A", " "}

\* the texts e.target.value may hold
Texts == UNION {[1..n -> Alphabet] : n \in 0..MaxText}

\* String.prototype.toLowerCase
ToLowerCase(text) == [i \in 1..Len(text) |-> IF text[i] = "A" THEN "a" ELSE text[i]]

RECURSIVE TrimStart(_)
TrimStart(text) ==
    IF text # <<>> /\ Head(text) = " " THEN TrimStart(Tail(text)) ELSE text

RECURSIVE TrimEnd(_)
TrimEnd(text) ==
    IF text # <<>> /\ text[Len(text)] = " "
    THEN TrimEnd(SubSeq(text, 1, Len(text) - 1)) ELSE text

\* String.prototype.trim
Trim(text) == TrimEnd(TrimStart(text))

\* String.prototype.includes
Includes(text, part) ==
    \E i \in 0..(Len(text) - Len(part)) : SubSeq(text, i + 1, i + Len(part)) = part

\* options.find(option => option.value === value): its position, 0 if none
FindByValue(val) ==
    IF \E i \in 1..Len(options) : options[i].value = val
    THEN CHOOSE i \in 1..Len(options) :
             /\ options[i].value = val
             /\ \A j \in 1..(i - 1) : options[j].value # val
    ELSE 0

\* options.filter(...) of the filter effect
Filter(text) ==
    SelectSeq(options,
              LAMBDA option :
                  \/ Includes(ToLowerCase(option.label), ToLowerCase(text))
                  \/ Includes(ToLowerCase(option.value), ToLowerCase(text)))

ComboSettled == comboEffects = <<>> /\ comboScheduled = NothingScheduled

\* the effects of the render that follows a handler: those whose
\* dependencies [value, options] and [inputValue, options] have changed
EffectsAfter(newValue, newInput) ==
    (IF newValue # value THEN <<"value">> ELSE <<>>)
        \o (IF newInput # inputValue THEN <<"filter">> ELSE <<>>)

\* "Update input value when prop value changes"
ComboValueEffect ==
    /\ comboEffects # <<>>
    /\ Head(comboEffects) = "value"
    /\ comboEffects' = Tail(comboEffects)
    /\ comboScheduled' =
           IF FindByValue(value) # 0
           THEN [comboScheduled EXCEPT !.inputSet = TRUE,
                                       !.inputValue = options[FindByValue(value)].label]
           ELSE IF value = <<>>
                THEN [comboScheduled EXCEPT !.inputSet = TRUE, !.inputValue = <<>>]
                ELSE comboScheduled
    /\ UNCHANGED <<inputValue, isOpen, filteredOptions, selectedIndex, value,
                   focused, blurTimers, nonComboVars>>

\* "Filter options based on input", with the inputValue of its render
ComboFilterEffect ==
    /\ comboEffects # <<>>
    /\ Head(comboEffects) = "filter"
    /\ comboEffects' = Tail(comboEffects)
    /\ comboScheduled' =
           [comboScheduled EXCEPT
               !.filterSet = TRUE,
               !.filteredOptions = IF Trim(inputValue) = <<>> THEN options
                                   ELSE Filter(inputValue)]
    /\ UNCHANGED <<inputValue, isOpen, filteredOptions, selectedIndex, value,
                   focused, blurTimers, nonComboVars>>

\* the render that follows the state updates of the effects
ComboRerender ==
    /\ comboEffects = <<>>
    /\ comboScheduled # NothingScheduled
    /\ inputValue' = IF comboScheduled.inputSet THEN comboScheduled.inputValue
                     ELSE inputValue
    /\ filteredOptions' = IF comboScheduled.filterSet
                          THEN comboScheduled.filteredOptions
                          ELSE filteredOptions
    /\ selectedIndex' = IF comboScheduled.filterSet THEN -1 ELSE selectedIndex
    /\ comboEffects' = EffectsAfter(value, inputValue')
    /\ comboScheduled' = NothingScheduled
    /\ UNCHANGED <<isOpen, value, focused, blurTimers, nonComboVars>>

\* inputRef.current?.blur(): the blur event runs handleInputBlur
Blur ==
    IF focused
    THEN focused' = FALSE /\ blurTimers' = blurTimers + 1
    ELSE UNCHANGED <<focused, blurTimers>>

\* handleSelect
handleSelect(option) ==
    /\ inputValue' = option.label
    /\ value' = option.value
    /\ isOpen' = FALSE
    /\ Blur
    /\ comboEffects' = EffectsAfter(option.value, option.label)
    /\ UNCHANGED <<filteredOptions, selectedIndex, comboScheduled>>

Keys == {"ArrowDown", "ArrowUp", "Enter", "Escape"}

\* handleKeyDown; filteredOptions[selectedIndex] is undefined outside the list
handleKeyDown(key) ==
    /\ ComboSettled
    /\ focused
    /\ blurTimers < MaxTimers
    /\ IF ~isOpen
       THEN /\ isOpen' = (key \in {"ArrowDown", "Enter"})
            /\ UNCHANGED <<inputValue, filteredOptions, selectedIndex, value,
                           focused, blurTimers, comboEffects, comboScheduled>>
       ELSE CASE key = "ArrowDown" ->
                    /\ selectedIndex' =
                           IF selectedIndex < Len(filteredOptions) - 1
                           THEN selectedIndex + 1 ELSE 0
                    /\ UNCHANGED <<inputValue, isOpen, filteredOptions, value,
                                   focused, blurTimers, comboEffects,
                                   comboScheduled>>
              [] key = "ArrowUp" ->
                    /\ selectedIndex' =
                           IF selectedIndex > 0 THEN selectedIndex - 1
                           ELSE Len(filteredOptions) - 1
                    /\ UNCHANGED <<inputValue, isOpen, filteredOptions, value,
                                   focused, blurTimers, comboEffects,
                                   comboScheduled>>
              [] key = "Enter" ->
                    IF selectedIndex >= 0 /\ selectedIndex < Len(filteredOptions)
                    THEN handleSelect(filteredOptions[selectedIndex + 1])
                    ELSE UNCHANGED comboVars
              [] key = "Escape" ->
                    /\ isOpen' = FALSE
                    /\ Blur
                    /\ UNCHANGED <<inputValue, filteredOptions, selectedIndex,
                                   value, comboEffects, comboScheduled>>
    /\ UNCHANGED nonComboVars

\* handleInputChange with e.target.value = text
handleInputChange(text) ==
    /\ ComboSettled
    /\ focused
    /\ text # inputValue
    /\ inputValue' = text
    /\ isOpen' = TRUE
    /\ value' = IF Trim(text) = <<>> THEN <<>> ELSE value
    /\ comboEffects' = EffectsAfter(value', text)
    /\ UNCHANGED <<filteredOptions, selectedIndex, focused, blurTimers,
                   comboScheduled, nonComboVars>>

\* handleInputFocus
handleInputFocus ==
    /\ ComboSettled
    /\ ~focused
    /\ focused' = TRUE
    /\ isOpen' = TRUE
    /\ UNCHANGED <<inputValue, filteredOptions, selectedIndex, value,
                   blurTimers, comboEffects, comboScheduled, nonComboVars>>

\* handleInputBlur: the input loses the focus
handleInputBlur ==
    /\ ComboSettled
    /\ focused
    /\ blurTimers < MaxTimers
    /\ Blur
    /\ UNCHANGED <<inputValue, isOpen, filteredOptions, selectedIndex, value,
                   comboEffects, comboScheduled, nonComboVars>>

\* the callback of handleInputBlur's setTimeout
BlurTimeout ==
    /\ ComboSettled
    /\ blurTimers > 0
    /\ blurTimers' = blurTimers - 1
    /\ isOpen' = FALSE
    /\ UNCHANGED <<inputValue, filteredOptions, selectedIndex, value, focused,
                   comboEffects, comboScheduled, nonComboVars>>

\* a click on the listed option at position i (counted from 1)
ClickOption(i) ==
    /\ ComboSettled
    /\ isOpen
    /\ i \in 1..Len(filteredOptions)
    /\ blurTimers < MaxTimers
    /\ handleSelect(filteredOptions[i])
    /\ UNCHANGED nonComboVars

ComboInit ==
    /\ PageInit
    /\ DashboardInit(NoEntry)
    /\ \E i \in 0..Len(options) :
           ComboboxInit(IF i = 0 THEN <<>> ELSE options[i].value)

ComboNext ==
    \/ ComboValueEffect
    \/ ComboFilterEffect
    \/ ComboRerender
    \/ \E key \in Keys : handleKeyDown(key)
    \/ \E text \in Texts : handleInputChange(text)
    \/ handleInputFocus
    \/ handleInputBlur
    \/ BlurTimeout
    \/ \E i \in 1..Len(options) : ClickOption(i)

\* A Combobox from its mount, over every prop value.
ComboSpec == ComboInit /\ [][ComboNext]_allVars

(***************************************************************************)
(* Properties.                                                             *)
(***************************************************************************)
IsNumber(v) == v.t = "num"

\* a >= b on JavaScript values: false when either is NaN
Geq(a, b) == IsNumber(a) /\ IsNumber(b) /\ a.n >= b.n

Positions(seq) == 1..Len(seq)

\* C1: every listing in dealListings carries an integer dealScore with
\* 0 <= dealScore <= 100, whichever response shape it was built from.
C1_ScoreBounds ==
    \A k \in Positions(dealListings) :
        /\ IsNumber(dealListings[k].dealScore)
        /\ dealListings[k].dealScore.n >= 0
        /\ dealListings[k].dealScore.n <= 100

\* the score the specification prescribes for price p, market price m > 0,
\* a condition and a verification flag
PrescribedScore(p, m, condition, verified) ==
    LET delta == ((m - p) * 100) \div m
        raw == 75 + delta
        base == IF raw < 50 THEN 50 ELSE IF raw > 95 THEN 95 ELSE raw
        c == CASE condition = "New" -> 5
               [] condition = "Excellent" -> 3
               [] OTHER -> 0
        v == IF verified THEN 2 ELSE 0
    IN IF base + c + v > 100 THEN 100 ELSE base + c + v

\* the market price an invocation scores against, when it has one
ReferencePrice(s) ==
    OrElse(scans[s].data.averagePrice, scans[s].avgMarketPrice)

\* the scored listings of the invocations that took data.deals.all
ScoredByDealsAll ==
    {<<s, k>> \in ScanIds \X (1..LongBatchLen) :
        /\ scans[s].pc = "sleeping"
        /\ scans[s].data.shape = "deals"
        /\ k <= Len(scans[s].allListings)}

\* C2: a listing of data.deals.all with price p, scored against a positive
\* market price M, gets min(100, floor(clamp(75 + (M-p)/M*100, 50, 95) + c + v));
\* at market price without bonus that is 75, 30% below market, Excellent and
\* verified 100, 30% above market without bonus 50.
C2_ScoreFormula ==
    \A sk \in ScoredByDealsAll :
        LET l == scans[sk[1]].allListings[sk[2]]
            m == ReferencePrice(sk[1])
        IN (IsNumber(l.price) /\ IsNumber(m) /\ m.n > 0) =>
              /\ l.dealScore =
                     Num(PrescribedScore(l.price.n, m.n, l.condition,
                                         l.sellerVerified))
              /\ (l.price.n = m.n /\ l.condition = "Used" /\ ~l.sellerVerified)
                     => l.dealScore = Num(75)
              /\ (10 * l.price.n = 7 * m.n /\ l.condition = "Excellent"
                    /\ l.sellerVerified) => l.dealScore = Num(100)
              /\ (10 * l.price.n = 13 * m.n /\ l.condition = "Used"
                    /\ ~l.sellerVerified) => l.dealScore = Num(50)

\* a listing 10% below a market price of 1000, New and verified, scored 92:
\* no clamp applies and both bonuses count
C2_Witness ==
    \E sk \in ScoredByDealsAll :
        LET l == scans[sk[1]].allListings[sk[2]]
        IN /\ ReferencePrice(sk[1]) = Num(1000)
           /\ l.price = Num(900) /\ l.condition = "New" /\ l.sellerVerified
           /\ l.dealScore = Num(92)

\* C3: the listings shown are sorted by non-increasing dealScore, in every
\* state during or after a scan.
C3_SortedByScore ==
    \A i \in Positions(dealListings), j \in Positions(dealListings) :
        i < j => Geq(dealListings[i].dealScore, dealListings[j].dealScore)

\* C4: dealListings never holds two listings with the same id.
C4_NoDuplicateIds ==
    \A i \in Positions(dealListings), j \in Positions(dealListings) :
        i < j => dealListings[i].id # dealListings[j].id

\* a raw record the specification calls malformed: price missing, not a
\* number, zero or negative, or source missing
Malformed(listing) ==
    \/ ~IsNumber(listing.price)
    \/ listing.price.n <= 0
    \/ listing.source = ""

\* C5: a batch of N raw listings of which K are malformed yields exactly
\* N-K listings in the ranked set.
C5_RejectionCount ==
    \A s \in ScanIds :
        scans[s].pc = "sleeping" =>
            Len(scans[s].allListings) =
                Len(scans[s].data.items)
                - Cardinality({k \in Positions(scans[s].data.items) :
                                  Malformed(scans[s].data.items[k])})

\* C6: no listing whose price is missing, not a number, zero or negative,
\* or whose source is missing, appears in dealListings.
C6_MalformedRejected ==
    \A k \in Positions(dealListings) :
        /\ IsNumber(dealListings[k].price)
        /\ dealListings[k].price.n > 0
        /\ dealListings[k].marketplace \notin {"", "Unknown"}

\* the last iteration of the reveal loop of invocation s runs
LastReveal(s) ==
    /\ scans[s].pc = "sleeping" /\ scans'[s].pc = "sleeping"
    /\ scans[s].i = Len(sources) - 2 /\ scans'[s].i = Len(sources) - 1

\* C7: a scan that runs to completion leaves the whole ranked sequence in
\* dealListings: the last iteration of its reveal loop assigns allListings,
\* element for element and in the same order.
C7_FinalRevealComplete ==
    [][\A s \in ScanIds : LastReveal(s) => dealListings' = scans[s].allListings]_vars

\* a scan of more listings than the middle prefix has run its last
\* iteration, and dealListings holds them all
C7_Witness ==
    \E s \in ScanIds :
        /\ scans[s].pc = "sleeping" /\ scans[s].i = Len(sources) - 1
        /\ Len(scans[s].allListings) > MidSize
        /\ dealListings = scans[s].allListings

\* C8: at most one scan is in progress at any time (a scan start requested
\* while one is active is a no-op).
C8_AtMostOneScan ==
    Cardinality({s \in ScanIds : InFlight(s)}) <= 1

\* C9: every scan that starts reaches a terminal state: the invocation
\* returns, and scrapingStatus.isActive and dealsLoading become false.
C9_ScanTerminates ==
    \A s \in ScanIds :
        InFlight(s) ~>
            (Returned(s) /\ ~scrapingStatus.isActive /\ ~dealsLoading)

\* an invocation has returned from a completed scan and the page is idle
C9_Witness ==
    \E s \in ScanIds :
        /\ scans[s].pc = "done"
        /\ Len(dealListings) > 0
        /\ ~scrapingStatus.isActive /\ ~dealsLoading

\* the fetch of invocation s fails: the invocation leaves through the catch
FetchFails(s) == scans[s].pc = "fetching" /\ scans'[s].pc = "failed"

\* C10: when the fetch fails the scan has never been in the Scanning state
\* (isActive was not true for it) and the listing set ends empty.
C10_FailedFetchNeverScanning ==
    [][\A s \in ScanIds :
          FetchFails(s) => /\ ~scrapingStatus.isActive
                           /\ dealListings' = <<>>]_vars

\* a step of the reveal loop of invocation s: a timer fires
TimerStep(s) == scans[s].pc = "sleeping" /\ scans'[s] # scans[s]

\* C11: a scan in progress is cancelled when the consumer leaves the page:
\* from then on no timer-driven step runs, and status and listings stay as
\* they were.
C11_CancelStopsSteps ==
    [][\A s \in ScanIds :
          (~mounted /\ scans[s].pc = "sleeping") =>
              /\ ~TimerStep(s)
              /\ UNCHANGED <<scrapingStatus, dealListings>>]_vars

\* the market price listing l of invocation s is scored against
ScoredAgainst(s, l) ==
    MarketPrice(l, scans[s].data.averagePrice, scans[s].avgMarketPrice)

\* C12: no listing is scored against a reference market price that is zero
\* or negative: the divisor of the price difference is never <= 0.
C12_PositiveReference ==
    \A sk \in ScoredByDealsAll :
        LET m == ScoredAgainst(sk[1], scans[sk[1]].allListings[sk[2]])
        IN ~m.nan => Positive(m).num > 0

\* the sum of the prices of a sequence of listings with numeric prices
RECURSIVE SumPrices(_)
SumPrices(seq) ==
    IF seq = <<>> THEN 0 ELSE Head(seq).price.n + SumPrices(Tail(seq))

\* the fraction f is the arithmetic mean of the prices of seq
IsMeanPrice(f, seq) ==
    ~f.nan /\ f.num * Len(seq) = SumPrices(seq) * f.den

\* C13: when the response carries no market price, every listing of the
\* batch is scored against the arithmetic mean of the prices of the valid
\* listings, and that mean is the guitar's avgMarketPrice.
C13_FallbackMeanPrice ==
    \A s \in ScanIds :
        LET all == scans[s].allListings
        IN (/\ scans[s].pc = "sleeping" /\ scans[s].data.shape = "deals"
            /\ scans[s].data.averagePrice = Undef
            /\ \A k \in Positions(all) : IsNumber(all[k].price)) =>
               /\ \A k \in Positions(all) :
                      IsMeanPrice(ScoredAgainst(s, all[k]), all)
               /\ IsMeanPrice(ToFrac(guitarData.avgMarketPrice), all)

\* the prices a scored listing is compared at
ComparisonPrices == {1, 500, 700, 850, 900, 960, 1000, 1100, 1250, 1300, 2000}

\* the dealScore invocation s gives listing l when its price is p and all
\* else is as it was
ScoreAtPrice(s, l, p) ==
    DealScore(RawListing(l.id, Num(p), l.marketplace, l.listingUrl,
                         l.condition, l.sellerVerified, Undef),
              scans[s].data.averagePrice, scans[s].avgMarketPrice)

\* C14: condition, verification flag and market price fixed, a lower price
\* never gives a lower dealScore: for p1 <= p2, score(p1) >= score(p2), with
\* the market price of the response, with the one captured from the page,
\* and with the stand-in price * 1.2.
C14_ScoreMonotone ==
    \A sk \in ScoredByDealsAll : \A p \in ComparisonPrices :
        LET l == scans[sk[1]].allListings[sk[2]]
        IN (IsNumber(l.price) /\ l.price.n > 0) =>
              /\ p <= l.price.n => Geq(ScoreAtPrice(sk[1], l, p), l.dealScore)
              /\ p >= l.price.n => Geq(l.dealScore, ScoreAtPrice(sk[1], l, p))

\* a listing below a market price of 1000 is scored strictly higher than
\* the same listing at a higher price
C14_Witness ==
    \E sk \in ScoredByDealsAll : \E p \in ComparisonPrices :
        LET l == scans[sk[1]].allListings[sk[2]]
        IN /\ ReferencePrice(sk[1]) = Num(1000)
           /\ IsNumber(l.price) /\ l.price.n > 0 /\ l.price.n < p
           /\ IsNumber(l.dealScore)
           /\ l.dealScore.n > ScoreAtPrice(sk[1], l, p).n

\* the ids and scores of a sequence of listings
ScoresOf(seq) == {<<seq[k].id, seq[k].dealScore>> : k \in Positions(seq)}

\* the listings a response yields on a freshly loaded page (no guitarData
\* captured) when every draw of Math.random() is 0
FirstLoadListings(data) ==
    Process(data, Undef, [k \in Positions(data.items) |-> 0])

\* C15: the dealScores a scan attaches depend on the response alone: they
\* are the scores the same response yields on a freshly loaded page,
\* whatever guitarData.avgMarketPrice the scan captured and whatever
\* Math.random() returned.
C15_ScoringDeterministic ==
    \A s \in ScanIds :
        scans[s].pc = "sleeping" =>
            ScoresOf(scans[s].allListings)
                = ScoresOf(FirstLoadListings(scans[s].data))

\* the place in the response of the first record that listing l of
\* invocation s can have been made from
InputPos(s, l) ==
    LET items == scans[s].data.items
        from == {k \in Positions(items) :
                    /\ items[k].price = l.price
                    /\ l.id = IF scans[s].data.shape = "deals"
                              THEN DealId(items[k])
                              ELSE FallbackId(items[k], k - 1)}
    IN CHOOSE k \in from : \A j \in from : k <= j

\* C16: among listings of equal dealScore the cheaper one is ranked first,
\* and listings equal in score and price keep the order of the response.
C16_TieBreakByPrice ==
    \A s \in ScanIds :
        LET all == scans[s].allListings
        IN scans[s].pc = "sleeping" =>
              \A i \in Positions(all), j \in Positions(all) :
                 (/\ i < j
                  /\ IsNumber(all[i].dealScore) /\ IsNumber(all[i].price)
                  /\ IsNumber(all[j].price)
                  /\ all[i].dealScore = all[j].dealScore) =>
                     \/ all[i].price.n < all[j].price.n
                     \/ /\ all[i].price.n = all[j].price.n
                        /\ InputPos(s, all[i]) <= InputPos(s, all[j])

\* a raw record with a valid price and source and no URL at all
LacksUrlOnly(listing) ==
    ~Malformed(listing) /\ listing.listingUrl = "" /\ listing.url = ""

\* C17: a raw listing with a valid price and source but no URL is kept in
\* the ranked set (no policy requiring a real URL being switched on).
C17_MissingUrlKept ==
    \A s \in ScanIds :
        scans[s].pc = "sleeping" =>
            \A k \in Positions(scans[s].data.items) :
                LET raw == scans[s].data.items[k]
                IN LacksUrlOnly(raw) =>
                      \E j \in Positions(scans[s].allListings) :
                          /\ scans[s].allListings[j].price = raw.price
                          /\ scans[s].allListings[j].marketplace = raw.source

\* C18: while a scan is active the number of revealed listings never goes
\* down: a step taken with scrapingStatus.isActive true leaves dealListings
\* at least as long as it was.
C18_RevealedCountMonotone ==
    [][scrapingStatus.isActive => Len(dealListings') >= Len(dealListings)]_vars

\* iteration i of the reveal loop of invocation s runs in this step
IterationRuns(s, i) ==
    /\ scans'[s].pc = "sleeping" /\ scans'[s].i = i
    /\ IF i = 0 THEN scans[s].pc = "fetching"
       ELSE scans[s].pc = "sleeping" /\ scans[s].i = i - 1

\* the documented label sequence
FixedLabels ==
    <<"Reverb", "eBay", "Facebook", "Craigslist", "Guitar Center", "Sweetwater">>

Steps == 0..5

\* the first n elements of a sequence
Prefix(seq, n) == [k \in 1..n |-> seq[k]]

\* fraction a is greater than fraction b (denominators positive)
Greater(a, b) == a.num * b.den > b.num * a.den

\* C19: step i of the reveal loop sets currentSource to the i-th label of
\* Reverb, eBay, Facebook, Craigslist, Guitar Center, Sweetwater,
\* completedSources to the first i+1 labels and progress to (i+1)/6*100;
\* progress rises with every step and is 100 exactly at the last one.
C19_LabelSequence ==
    [][\A s \in ScanIds : \A i \in Steps :
          IterationRuns(s, i) =>
              /\ scrapingStatus'.currentSource = FixedLabels[i + 1]
              /\ scrapingStatus'.completedSources = Prefix(FixedLabels, i + 1)
              /\ scrapingStatus'.progress.num * 6
                     = (i + 1) * 100 * scrapingStatus'.progress.den
              /\ Greater(scrapingStatus'.progress, scrapingStatus.progress)
              /\ (scrapingStatus'.progress.num
                     = 100 * scrapingStatus'.progress.den) <=> (i = 5)]_vars

\* the last step of a scan: the label is Sweetwater and progress is 100,
\* and no listing of the scan comes from Sweetwater
C19_Witness ==
    \E s \in ScanIds :
        /\ scans[s].pc = "sleeping" /\ scans[s].i = 5
        /\ scrapingStatus.currentSource = "Sweetwater"
        /\ scrapingStatus.completedSources = FixedLabels
        /\ scrapingStatus.progress.num = 100 * scrapingStatus.progress.den
        /\ \A k \in Positions(scans[s].allListings) :
               scans[s].allListings[k].marketplace # "Sweetwater"

\* C20: every value a scan assigns to dealListings is a prefix of its
\* allListings: the first min(3, N) at the first step, the first min(6, N)
\* at the third, all N at the last, and the other steps assign nothing;
\* within the scan the prefixes only grow.
C20_PrefixGrowth ==
    [][\A s \in ScanIds : \A i \in Steps :
          IterationRuns(s, i) =>
              LET all == scans'[s].allListings
                  N == Len(all)
              IN /\ i = 0 => dealListings' = Prefix(all, IF N < 3 THEN N ELSE 3)
                 /\ i = 2 => dealListings' = Prefix(all, IF N < 6 THEN N ELSE 6)
                 /\ i = 5 => dealListings' = all
                 /\ i \in {1, 3, 4} => dealListings' = dealListings
                 /\ i > 0 => Len(dealListings') >= Len(dealListings)]_vars

\* the third step of a scan of more than six listings has shown the first
\* six, three more than the first step
C20_Witness ==
    \E s \in ScanIds :
        /\ scans[s].pc = "sleeping" /\ scans[s].i = 2
        /\ Len(scans[s].allListings) > 6
        /\ dealListings = Prefix(scans[s].allListings, 6)

\* C21: the status of a scan is fresh: while the scan awaits its fetch
\* progress is 0 and completedSources is empty, and while it reveals
\* completedSources holds as many labels as reveal steps have run.
C21_FreshStatus ==
    \A s \in ScanIds :
        /\ scans[s].pc = "fetching" =>
               /\ scrapingStatus.progress.num = 0
               /\ scrapingStatus.completedSources = <<>>
        /\ scans[s].pc = "sleeping" =>
               Len(scrapingStatus.completedSources) = scans[s].i + 1

\* C22: a step that takes the status out of the active state records the
\* completion: lastUpdate is set and nextScan is lastUpdate + 6 hours, on
\* every way out of the scan.
C22_CompletionRecorded ==
    [][(scrapingStatus.isActive /\ ~scrapingStatus'.isActive) =>
          /\ scrapingStatus'.lastUpdate = "completion time"
          /\ scrapingStatus'.nextScan = "completion time + 6 hours"]_vars

\* C24: the busy flag is faithful: whenever an invocation of loadDealsData
\* has started and not yet made its terminal status update,
\* scrapingStatus.isActive is true.
C24_BusyFlagFaithful ==
    (\E s \in ScanIds : InFlight(s)) => scrapingStatus.isActive

\* a raw record with valid price, source and URL and none of condition,
\* location, seller rating and posting date
LacksOptionalFields(listing) ==
    /\ ~Malformed(listing) /\ listing.listingUrl # ""
    /\ listing.condition = "" /\ listing.location = ""
    /\ listing.seller_rating = Undef /\ listing.created_at = ""

\* listing l is raw record raw with the missing fields coerced, scored by
\* invocation s as a Used one
CoercedFrom(s, l, raw) ==
    /\ l.id = DealId(raw) /\ l.price = raw.price
    /\ l.marketplace = raw.source
    /\ l.condition = "Used"
    /\ l.sellerLocation = "Location not specified"
    /\ l.sellerInfo.rating = Num(0)
    /\ l.datePosted = "Recently"
    /\ l.dealScore = DealScore([raw EXCEPT !.condition = "Used"],
                               scans[s].data.averagePrice,
                               scans[s].avgMarketPrice)

\* C23: a raw listing of data.deals.all with valid price, source and URL and
\* without condition, location, seller rating and posting date is in the
\* ranked set, with condition "Used", the placeholder location, rating 0,
\* posting date 'Recently', and the dealScore of a Used listing.
C23_OptionalFieldsCoerced ==
    \A s \in ScanIds :
        (scans[s].pc = "sleeping" /\ scans[s].data.shape = "deals") =>
            \A k \in Positions(scans[s].data.items) :
                LacksOptionalFields(scans[s].data.items[k]) =>
                    \E j \in Positions(scans[s].allListings) :
                        CoercedFrom(s, scans[s].allListings[j],
                                    scans[s].data.items[k])

\* a listing without optional fields, below market, is ranked with the
\* coerced values and a score above the base of 75
C23_Witness ==
    \E s \in ScanIds :
        /\ scans[s].pc = "sleeping" /\ scans[s].data.shape = "deals"
        /\ \E k \in Positions(scans[s].data.items) :
              \E j \in Positions(scans[s].allListings) :
                 /\ LacksOptionalFields(scans[s].data.items[k])
                 /\ CoercedFrom(s, scans[s].allListings[j],
                                scans[s].data.items[k])
                 /\ IsNumber(scans[s].allListings[j].dealScore)
                 /\ scans[s].allListings[j].dealScore.n > 75

\* every invocation of loadDealsData has returned
AllReturned == \A s \in ScanIds : Returned(s)

\* C25: once all scans have terminated, dealListings holds the ranked
\* listings of the scan that was started last, also when that scan was
\* started while an earlier one was still fetching or revealing.
C25_LatestScanWins ==
    (latest.slot # 0 /\ AllReturned) => dealListings = latest.listings

\* the fetch of invocation k settles and its guitar is added
AddSucceeds(k) == adds[k].pc = "fetching" /\ adds'[k].pc = "added"

\* C26: no update to the tracked list is lost: a handleAddGuitar call whose
\* fetch succeeds appends its new guitar to the list as it is when the fetch
\* settles, so that the guitars added meanwhile stay and the guitars removed
\* meanwhile stay removed.
C26_NoLostUpdate ==
    [][\A k \in AddIds :
          AddSucceeds(k) =>
              /\ Len(trackedGuitars') = Len(trackedGuitars) + 1
              /\ SubSeq(trackedGuitars', 1, Len(trackedGuitars)) = trackedGuitars
              /\ trackedGuitars'[Len(trackedGuitars')].id = adds[k].id]_allVars

Ids(list) == {list[i].id : i \in Positions(list)}

\* the list without the guitars whose id is id, the others in their order
RECURSIVE Without(_, _)
Without(list, id) ==
    IF list = <<>> THEN <<>>
    ELSE IF Head(list).id = id THEN Without(Tail(list), id)
         ELSE <<Head(list)>> \o Without(Tail(list), id)

C28_FailedAddChangesNothing ==
    [][/\ \A k \in AddIds :
              /\ (adds'[k].pc # adds[k].pc /\ adds'[k].pc \in {"failed", "skipped"})
                     => UNCHANGED <<trackedGuitars, formData, isAddModalOpen>>
              /\ (adds'[k].pc = "fetching" /\ adds[k].pc # "fetching")
                     => FormComplete(formData)
       /\ (\E id \in Ids(trackedGuitars') \ Ids(trackedGuitars) :
               id > Len(StoredGuitars)) =>
              /\ \E k \in AddIds : AddSucceeds(k)
              /\ formData' = EmptyForm
              /\ ~isAddModalOpen']_allVars

\* a fetch has failed with the form filled in and the modal open
C28_Witness ==
    /\ \E k \in AddIds : adds[k].pc = "failed"
    /\ isAddModalOpen
    /\ FormComplete(formData)
    /\ trackedGuitars = <<>>
    /\ nextId = 1

\* C29: loading the dashboard never loses the persisted list: the entry of
\* localStorage, once it holds a list, is removed only when trackedGuitars is
\* empty and no loaded list is waiting to be rendered.
C29_EntryKeptOnLoad ==
    [][(storage.kind = "json" /\ storage'.kind = "absent") =>
           (trackedGuitars = <<>> /\ ~scheduled.set)]_allVars

\* once the effects have settled the entry equals the list of trackedGuitars
EntrySettled ==
    Settled => storage = (IF Len(trackedGuitars) > 0
                          THEN Stringify(trackedGuitars) ELSE NoEntry)

\* C30: the highlighted index of the Combobox is -1 or the index of a listed
\* option: 0 <= selectedIndex < length(filteredOptions).
C30_HighlightInRange ==
    \/ selectedIndex = -1
    \/ (0 <= selectedIndex /\ selectedIndex < Len(filteredOptions))

====
